---- MODULE Spec2Model ----
(***************************************************************************)
(* Fullerene annealing (src/src/main.rs): the Point6 value type, the       *)
(* Brenner-type potential of Fuleren, the two Metropolis moves, the        *)
(* annealing loop of main and the loader Fuleren::from_file.               *)
(*                                                                         *)
(* f64 values are modelled as decimal fixed-point integers: the integer v  *)
(* stands for the real v / ONE.  Every arithmetic operator below rounds    *)
(* toward minus infinity to the nearest multiple of 1 / ONE, and keeps all *)
(* intermediate values inside TLC's 32-bit integers.                       *)
(***************************************************************************)
EXTENDS Integers, Sequences, FiniteSets, TLC

\* ------------------------------------------------------------------------
\* f64 arithmetic
\* ------------------------------------------------------------------------

\* The fixed-point unit: ONE stands for 1.0.
ONE == 10000

HALF == ONE \div 2

\* std::f64::consts::PI
PI == 31416

TwoPI == 2 * PI

HalfPI == PI \div 2

\* f64::NAN, the result of 0.0 / 0.0.  It is produced only by from_cartesian
\* and is outside the range of every finite value of the model.
NaN == -999999999

\* f64 overflow of exp: every finite model value is below it.
ExpMax == 2000000000

\* a * b: the exact product of the two reals, rounded down.
FMul(a, b) ==
  LET ah == a \div ONE
      al == a % ONE
      bh == b \div ONE
      bl == b % ONE
  IN  ah * bh * ONE + ah * bl + al * bh + (al * bl) \div ONE

\* a / b for b > 0: the exact quotient, rounded down, by long division with
\* two decimal digits at a time (r1 and r2 are the running remainders).
FDivDigits34(r2, b) == (r2 * 100) \div b

FDivDigits12(r1, b) == ((r1 * 100) \div b) * 100 + FDivDigits34((r1 * 100) % b, b)

FDivPos(a, b) == (a \div b) * ONE + FDivDigits12(a % b, b)

\* a / b for b # 0.  A zero divisor is handled by the callers that can meet
\* one.
FDiv(a, b) == IF b > 0 THEN FDivPos(a, b) ELSE FDivPos(-a, -b)

\* x.powi(2)
Powi2(x) == FMul(x, x)

\* x.sqrt() for x >= 0: Newton's iteration downward from a bound y above the
\* root (z is the next iterate), then a last correction by one unit.
RECURSIVE SqrtIter(_, _, _)
SqrtIter(x, y, z) ==
  IF z >= y THEN y ELSE SqrtIter(x, z, (z + FDiv(x, z)) \div 2)

SqrtAbove(x) ==
  IF x <= ONE THEN ONE
  ELSE IF x <= 4 * ONE THEN 2 * ONE
  ELSE IF x <= 16 * ONE THEN 4 * ONE
  ELSE IF x <= 64 * ONE THEN 8 * ONE
  ELSE x

SqrtFix(x, y) ==
  IF FMul(y + 1, y + 1) <= x THEN y + 1
  ELSE IF y > 0 /\ FMul(y, y) > x THEN y - 1
  ELSE y

SqrtFrom(x, y) == SqrtFix(x, SqrtIter(x, y, (y + FDiv(x, y)) \div 2))

FSqrt(x) == IF x <= 0 THEN 0 ELSE SqrtFrom(x, SqrtAbove(x))

\* cos and sin on [0, PI/2] by their Taylor polynomials in q = x^2 (Horner
\* form).
CosPoly(q) ==
  LET t5 == ONE - q \div 90
      t4 == ONE - FMul(q, t5) \div 56
      t3 == ONE - FMul(q, t4) \div 30
      t2 == ONE - FMul(q, t3) \div 12
  IN  ONE - FMul(q, t2) \div 2

CosK(x) == CosPoly(FMul(x, x))

SinPoly(q) ==
  LET t5 == ONE - q \div 110
      t4 == ONE - FMul(q, t5) \div 72
      t3 == ONE - FMul(q, t4) \div 42
      t2 == ONE - FMul(q, t3) \div 20
  IN  ONE - FMul(q, t2) \div 6

SinK(x) == FMul(x, SinPoly(FMul(x, x)))

\* x.cos(): reduced to m in [0, 2 PI), then to a in [0, PI], then to
\* [0, PI/2].
CosHalfTurn(a) == IF a > HalfPI THEN -CosK(PI - a) ELSE CosK(a)

CosTurn(m) == CosHalfTurn(IF m > PI THEN TwoPI - m ELSE m)

FCos(x) == CosTurn(x % TwoPI)

\* x.sin()
SinHalfTurn(a) == IF a > HalfPI THEN SinK(PI - a) ELSE SinK(a)

SinTurn(m) == IF m > PI THEN -SinHalfTurn(m - PI) ELSE SinHalfTurn(m)

FSin(x) == SinTurn(x % TwoPI)

\* e
EulerE == 27183

\* exp on [0, 1) by its Taylor polynomial (Horner form).
ExpK(f) ==
  LET t8 == ONE + f \div 9
      t7 == ONE + FMul(f, t8) \div 8
      t6 == ONE + FMul(f, t7) \div 7
      t5 == ONE + FMul(f, t6) \div 6
      t4 == ONE + FMul(f, t5) \div 5
      t3 == ONE + FMul(f, t4) \div 4
      t2 == ONE + FMul(f, t3) \div 3
      t1 == ONE + FMul(f, t2) \div 2
  IN  ONE + FMul(f, t1)

\* x.exp(): exp(x) = e * exp(x - 1) = exp(x + 1) / e; it underflows to 0
\* below -12 and overflows (ExpMax stands for +inf) above 12.
RECURSIVE FExp(_)
FExp(x) ==
  IF x < -12 * ONE THEN 0
  ELSE IF x >= 12 * ONE THEN ExpMax
  ELSE IF x < 0 THEN FDiv(FExp(x + ONE), EulerE)
  ELSE IF x >= ONE THEN FMul(FExp(x - ONE), EulerE)
  ELSE ExpK(x)

\* ln on [1, e) as 2 atanh(t) with t = (x - 1) / (x + 1), by its Taylor
\* polynomial in q = t^2.
AtanhPoly(q) ==
  LET s6 == ONE \div 13
      s5 == ONE \div 11 + FMul(q, s6)
      s4 == ONE \div 9 + FMul(q, s5)
      s3 == ONE \div 7 + FMul(q, s4)
      s2 == ONE \div 5 + FMul(q, s3)
      s1 == ONE \div 3 + FMul(q, s2)
  IN  ONE + FMul(q, s1)

TwoAtanh(t) == 2 * FMul(t, AtanhPoly(FMul(t, t)))

LnK(x) == TwoAtanh(FDiv(x - ONE, x + ONE))

\* x.ln() for x > 0: ln(x) = 1 + ln(x / e) = -ln(1 / x).
RECURSIVE FLn(_)
FLn(x) ==
  IF x < ONE THEN -FLn(FDiv(ONE, x))
  ELSE IF x >= EulerE THEN ONE + FLn(FDiv(x, EulerE))
  ELSE LnK(x)

\* x.powf(y) for x >= 0: exp(y ln x); 0 to a positive power is 0.
FPowf(x, y) ==
  IF x = 0 THEN (IF y > 0 THEN 0 ELSE IF y = 0 THEN ONE ELSE ExpMax)
  ELSE FExp(FMul(y, FLn(x)))

\* c.acos() for c in [-1, 1]: the angle in [0, PI] whose cosine is c, found
\* by bisection (cos decreases on [0, PI]).
RECURSIVE AcosIter(_, _, _)
AcosIter(c, lo, hi) ==
  IF hi - lo <= 1 THEN (IF FCos(hi) >= c THEN hi ELSE lo)
  ELSE IF FCos((lo + hi) \div 2) >= c THEN AcosIter(c, (lo + hi) \div 2, hi)
  ELSE AcosIter(c, lo, (lo + hi) \div 2)

FAcos(c) ==
  IF c >= ONE THEN 0 ELSE IF c <= -ONE THEN PI ELSE AcosIter(c, 0, PI)

\* t.atan(): the angle in (-PI/2, PI/2) whose tangent is t, found by
\* bisection on the sign of sin(a) - t cos(a).
RECURSIVE AtanIter(_, _, _)
AtanIter(t, lo, hi) ==
  IF hi - lo <= 1 THEN lo
  ELSE IF FSin((lo + hi) \div 2) <= FMul(t, FCos((lo + hi) \div 2))
       THEN AtanIter(t, (lo + hi) \div 2, hi)
  ELSE AtanIter(t, lo, (lo + hi) \div 2)

FAtan(t) ==
  IF t >= 0 THEN AtanIter(t, 0, HalfPI) ELSE -AtanIter(-t, 0, HalfPI)

\* ------------------------------------------------------------------------
\* params
\* ------------------------------------------------------------------------

R0 == 13150

R1 == 17000

R2 == 20000

De == 63250

S == 12900

lambda == 15000

del == 8047

a0 == 113

c0 == 190000

d0 == 25000

\* ------------------------------------------------------------------------
\* Point6
\* ------------------------------------------------------------------------

\* Point6::new
Point6_new == [x |-> 0, y |-> 0, z |-> 0, r |-> 0, phi |-> 0, theta |-> 0]

\* (yt/xt).atan(): a zero divisor gives an infinite quotient, whose atan is
\* +-PI/2, or NaN for 0/0.
AtanOfQuotient(yt, xt) ==
  IF xt = 0
  THEN (IF yt = 0 THEN NaN ELSE IF yt > 0 THEN HalfPI ELSE -HalfPI)
  ELSE FAtan(FDiv(yt, xt))

\* (zt/rt).acos(): rt = 0 only when zt = 0, and 0/0 is NaN.
AcosOfQuotient(zt, rt) ==
  IF rt = 0 THEN NaN ELSE FAcos(FDiv(zt, rt))

\* The Point6 literal of from_cartesian.
CartesianPoint(xt, yt, zt, rt) ==
  [x |-> xt, y |-> yt, z |-> zt, r |-> rt,
   phi |-> AtanOfQuotient(yt, xt),
   theta |-> AcosOfQuotient(zt, rt)]

\* Point6::from_cartesian; data[1..3] are the source's data[0..2].
from_cartesian(data) ==
  CartesianPoint(data[1], data[2], data[3],
                 FSqrt(Powi2(data[1]) + Powi2(data[2]) + Powi2(data[3])))

\* The Point6 literal of from_spherical; a NaN angle makes every product NaN.
SphericalPoint(r, phi, theta) ==
  IF phi = NaN \/ theta = NaN
  THEN [x |-> NaN, y |-> NaN, z |-> NaN, r |-> r, phi |-> phi, theta |-> theta]
  ELSE [x |-> FMul(FMul(r, FSin(theta)), FCos(phi)),
        y |-> FMul(FMul(r, FSin(theta)), FSin(phi)),
        z |-> FMul(r, FCos(theta)),
        r |-> r, phi |-> phi, theta |-> theta]

\* Point6::from_spherical
from_spherical(data) == SphericalPoint(data[1], data[2], data[3])

\* assert_angles without its two upper branches (an angle above its range is
\* left alone): the variant C4_AnglesStayInRange must tell from assert_angles.
assert_angles_lower_only(pt) ==
  [pt EXCEPT
     !.phi = IF pt.phi < 0 THEN pt.phi + TwoPI ELSE pt.phi,
     !.theta = IF pt.theta < 0 THEN pt.theta + PI ELSE pt.theta]

\* Point6::assert_angles: one wrap-around correction per angle.
assert_angles(pt) ==
  [pt EXCEPT
     !.phi = IF pt.phi < 0 THEN pt.phi + TwoPI
             ELSE IF pt.phi > TwoPI THEN pt.phi - TwoPI ELSE pt.phi,
     !.theta = IF pt.theta < 0 THEN pt.theta + PI
               ELSE IF pt.theta > PI THEN pt.theta - PI ELSE pt.theta]

\* ------------------------------------------------------------------------
\* Brenner potential.  The positions of a cluster are a function from the
\* atom indices 0 .. size-1 to Point6.
\* ------------------------------------------------------------------------

\* De/(S - 1.)
VrScale == FDiv(De, S - ONE)

\* -(2.*S).sqrt() * lambda
VrRate == FMul(-FSqrt(2 * S), lambda)

_v_r(r) == FMul(VrScale, FExp(FMul(VrRate, r - R0)))

\* De*S/(S - 1.)
VaScale == FDiv(FMul(De, S), S - ONE)

\* -(2./S).sqrt() * lambda
VaRate == FMul(-FSqrt(FDiv(2 * ONE, S)), lambda)

_v_a(r) == FMul(VaScale, FExp(FMul(VaRate, r - R0)))

_mod_arr(vec) == FSqrt(Powi2(vec[1]) + Powi2(vec[2]) + Powi2(vec[3]))

\* The vector from atom i to atom j.
Vec(pos, i, j) ==
  <<pos[j].x - pos[i].x, pos[j].y - pos[i].y, pos[j].z - pos[i].z>>

_r_ij(pos, i, j) == _mod_arr(Vec(pos, i, j))

\* 0.5*(1. + ((r - R1)/(R2-R1)*PI).cos() ): the cutoff factor of the second
\* branch of _vi and of _ksi_ij.
CutOff(r) == FMul(HALF, ONE + FCos(FMul(FDiv(r - R1, R2 - R1), PI)))

\* cos_ijk of _g_ijk.  Coincident atoms make a divisor zero.
CosAngle(vec_ij, vec_ik) ==
  FDiv(FDiv(FMul(vec_ij[1], vec_ik[1]) + FMul(vec_ij[2], vec_ik[2])
              + FMul(vec_ij[3], vec_ik[3]),
            _mod_arr(vec_ij)),
       _mod_arr(vec_ik))

\* c0.powi(2) and d0.powi(2)
C0Sq == Powi2(c0)

D0Sq == Powi2(d0)

\* The value of _g_ijk for a given cos_ijk.
GOfCos(cos_ijk) ==
  IF cos_ijk > 0 THEN 20 * ONE
  ELSE FMul(a0, ONE + FDiv(C0Sq, D0Sq) - FDiv(C0Sq, D0Sq + Powi2(ONE + cos_ijk)))

_g_ijk(pos, i, j, k) == GOfCos(CosAngle(Vec(pos, i, j), Vec(pos, i, k)))

\* The term of _ksi_ij for the third atom k at distance r_ik from i.
KsiTerm(pos, i, j, k, r_ik) ==
  IF r_ik <= R1 THEN _g_ijk(pos, i, j, k)
  ELSE IF r_ik <= R2 THEN FMul(CutOff(r_ik), _g_ijk(pos, i, j, k))
  ELSE 0

\* The terms of _ksi_ij for the third atoms k, k+1, ..., size-1.
RECURSIVE KsiFrom(_, _, _, _, _)
KsiFrom(pos, size, i, j, k) ==
  IF k >= size THEN 0
  ELSE (IF k = i \/ k = j THEN 0 ELSE KsiTerm(pos, i, j, k, _r_ij(pos, i, k)))
         + KsiFrom(pos, size, i, j, k + 1)

_ksi_ij(pos, size, i, j) == KsiFrom(pos, size, i, j, 0)

_b_ij(pos, size, i, j) == FPowf(ONE + _ksi_ij(pos, size, i, j), -del)

\* _v_r(r_ij) - 0.5*(b_ij + b_ji) * _v_a(r_ij)
PairTerm(pos, size, i, j, r_ij) ==
  _v_r(r_ij)
    - FMul(FMul(HALF, _b_ij(pos, size, i, j) + _b_ij(pos, size, j, i)), _v_a(r_ij))

\* The term of _vi for the partner j at distance r_ij from i.
ViTerm(pos, size, i, j, r_ij) ==
  IF r_ij <= R1 THEN PairTerm(pos, size, i, j, r_ij)
  ELSE IF r_ij <= R2 THEN FMul(CutOff(r_ij), PairTerm(pos, size, i, j, r_ij))
  ELSE 0

\* The terms of _vi for the partners j, j+1, ..., size-1.
RECURSIVE ViFrom(_, _, _, _)
ViFrom(pos, size, i, j) ==
  IF j >= size THEN 0
  ELSE (IF j = i THEN 0 ELSE ViTerm(pos, size, i, j, _r_ij(pos, i, j)))
         + ViFrom(pos, size, i, j + 1)

_vi(pos, size, i) == ViFrom(pos, size, i, 0)

RECURSIVE SumVi(_, _, _)
SumVi(pos, size, i) ==
  IF i >= size THEN 0 ELSE _vi(pos, size, i) + SumVi(pos, size, i + 1)

\* The value Fuleren::energy_calc computes, stores in E and returns.
energy_calc(pos, size) == FMul(HALF, SumVi(pos, size, 0))

\* ------------------------------------------------------------------------
\* Monte Carlo moves.  A cluster is a record [positions, size, E].
\* ------------------------------------------------------------------------

\* hard coded change rates of random_atom_shift
w_r == 1

w_phi == 500

w_theta == 500

\* hard coded rate of change of random_global_r_shift
w_all == 1

\* if _exp < 1. { _exp} else { 1.}
MinWithOne(_exp) == IF _exp < ONE THEN _exp ELSE ONE

\* p_acc with the sign of the exponent lost, (beta*(e_new - e_old)).exp(): the
\* variant C5_DownhillAlwaysAccepted must tell from p_acc.
p_acc_sign_lost(beta, e_new, e_old) == MinWithOne(FExp(FMul(beta, e_new - e_old)))

\* let _exp = (-beta*(e_new - e_old)).exp(); let p_acc = ...
p_acc(beta, e_new, e_old) == MinWithOne(FExp(FMul(-beta, e_new - e_old)))

\* The atom random_atom_shift proposes for the atom pt from the draws u1, u2,
\* u3: the three spherical fields are overwritten, the angles wrapped.
ShiftedAtom(pt, u1, u2, u3) ==
  assert_angles([pt EXCEPT
                   !.r = pt.r + FMul(FMul(pt.r, 2 * u1 - ONE), w_r),
                   !.phi = pt.phi + FMul(FMul(pt.phi, 2 * u2 - ONE), w_phi),
                   !.theta = pt.theta + FMul(FMul(pt.theta, 2 * u3 - ONE), w_theta)])

\* ... and the atom rebuilt from its new spherical triple.
Rebuilt(pt) == from_spherical(<<pt.r, pt.phi, pt.theta>>)

ProposeAtom(pt, u1, u2, u3) == Rebuilt(ShiftedAtom(pt, u1, u2, u3))

\* The first half of Fuleren::random_atom_shift(i, beta), up to v_new: the
\* cluster on entry, the proposed positions and the two per-atom energies.
AtomTrialNew(self, i, v_old, prop) ==
  [old |-> self, prop |-> prop, v_old |-> v_old,
   v_new |-> _vi(prop, self.size, i)]

AtomTrial(self, i, u1, u2, u3) ==
  AtomTrialNew(self, i, _vi(self.positions, self.size, i),
               [self.positions EXCEPT ![i] = ProposeAtom(self.positions[i], u1, u2, u3)])

\* The atom a rejected local move writes back, from the saved r_old, phi_old
\* and theta_old.
RevertAtom(r_old, phi_old, theta_old) ==
  from_spherical(<<r_old, phi_old, theta_old>>)

\* random_atom_shift storing v_new in the cached E of the cluster: the variant
\* C9_LocalMoveTouchesOnlyAtom must tell from AtomDecide.
AtomDecideCachingEnergy(t, i, beta, u4) ==
  IF u4 <= p_acc(beta, t.v_new, t.v_old)
  THEN [self |-> [t.old EXCEPT !.positions = t.prop, !.E = t.v_new], ret |-> TRUE]
  ELSE [self |-> [t.old EXCEPT !.positions =
                    [t.prop EXCEPT ![i] = from_spherical(<<t.old.positions[i].r,
                                                          t.old.positions[i].phi,
                                                          t.old.positions[i].theta>>)],
                               !.E = t.v_new],
        ret |-> FALSE]

\* The second half of random_atom_shift: the Metropolis test of the trial t
\* with the draw u4; the cluster it leaves and the flag it returns.
AtomDecide(t, i, beta, u4) ==
  IF u4 <= p_acc(beta, t.v_new, t.v_old)
  THEN [self |-> [t.old EXCEPT !.positions = t.prop], ret |-> TRUE]
  ELSE [self |-> [t.old EXCEPT !.positions =
                    [t.prop EXCEPT ![i] = RevertAtom(t.old.positions[i].r,
                                                     t.old.positions[i].phi,
                                                     t.old.positions[i].theta)]],
        ret |-> FALSE]

\* The atom random_global_r_shift proposes for the atom pt.
RescaleAtom(pt, r_change) ==
  from_spherical(<<FMul(pt.r, r_change), pt.phi, pt.theta>>)

\* for atom in iter { atom.assign_elem(..) }, from atom k on.
RECURSIVE RescaleFrom(_, _, _, _)
RescaleFrom(pos, size, r_change, k) ==
  IF k >= size THEN pos
  ELSE RescaleFrom([pos EXCEPT ![k] = RescaleAtom(pos[k], r_change)],
                   size, r_change, k + 1)

\* The first half of Fuleren::random_global_r_shift(beta), up to e_new: the
\* cluster on entry, the proposed positions and the two total energies.
GlobalTrialNew(self, e_old, prop) ==
  [old |-> self, prop |-> prop, v_old |-> e_old,
   v_new |-> energy_calc(prop, self.size)]

GlobalTrial(self, u1) ==
  GlobalTrialNew(self, energy_calc(self.positions, self.size),
                 RescaleFrom(self.positions, self.size,
                             ONE + FMul(w_all, 2 * u1 - ONE), 0))

\* A rejection that forgets the snapshot and keeps the proposed positions: the
\* variant C6_RejectedGlobalRestoresAll must tell from RestoreAll.
RestoreNothing(prop, atoms_old_array) == prop

\* self.positions.assign_elem(atoms_old_array)
RestoreAll(prop, atoms_old_array) == atoms_old_array

\* The second half of random_global_r_shift: the Metropolis test of the
\* trial t with the draw u2.  E holds what the last energy_calc stored.
GlobalDecide(t, beta, u2) ==
  IF u2 <= p_acc(beta, t.v_new, t.v_old)
  THEN [self |-> [t.old EXCEPT !.positions = t.prop, !.E = t.v_new], ret |-> TRUE]
  ELSE [self |-> [t.old EXCEPT !.positions = RestoreAll(t.prop, t.old.positions),
                               !.E = t.v_new],
        ret |-> FALSE]

\* get_beta
get_beta(it, it_max, b_min, b_max, p) ==
  b_min + FMul(FPowf(FDiv(it * ONE, it_max * ONE), p), b_max - b_min)

\* ------------------------------------------------------------------------
\* Fuleren constructors
\* ------------------------------------------------------------------------

\* Fuleren::new
Fuleren_new(n) ==
  [positions |-> [k \in 0 .. n - 1 |-> Point6_new], size |-> n, E |-> 0]

\* Fuleren::randomize_on_sphere(r) with the angle draws phis[k], thetas[k],
\* from atom k on.
RECURSIVE SphereFrom(_, _, _, _, _, _)
SphereFrom(pos, size, r, phis, thetas, k) ==
  IF k >= size THEN pos
  ELSE SphereFrom([pos EXCEPT ![k] = from_spherical(<<r, phis[k], thetas[k]>>)],
                  size, r, phis, thetas, k + 1)

randomize_on_sphere(self, r, phis, thetas) ==
  [self EXCEPT !.positions = SphereFrom(self.positions, self.size, r, phis, thetas, 0)]

\* The positions Fuleren::from_file collects from well-formed lines, from
\* line k on (acc holds the atoms of the lines before).
RECURSIVE CollectFrom(_, _, _, _)
CollectFrom(acc, triples, n, k) ==
  IF k >= n THEN acc
  ELSE CollectFrom([acc EXCEPT ![k] = from_cartesian(triples[k])], triples, n, k + 1)

\* Ok(Fuleren {size: pos_array.len(), E: 0., positions: pos_array})
from_file_ok(triples, n) ==
  [positions |-> CollectFrom([k \in 0 .. n - 1 |-> Point6_new], triples, n, 0),
   size |-> n, E |-> 0]

\* ------------------------------------------------------------------------
\* main: one annealing run
\* ------------------------------------------------------------------------

\* Bounds of the model: the atom count N of the run and its it_max.
NAtoms == 3

ItMax == 1

\* Run configuration of main.
beta_min == 10000

beta_max == 1000000

p == 20000

sphere_r == 25000

\* Angle draws of randomize_on_sphere: atom k gets phi0 + k dphi and
\* theta0 + (k mod 2) dtheta, all inside [0, 2 PI] x [0, PI].
SphereDraws ==
  { [phi0 |-> 10000, dphi |-> 5500, theta0 |-> 15000, dtheta |-> 2000],
    [phi0 |-> 40000, dphi |-> 6000, theta0 |-> 12000, dtheta |-> 1500],
    [phi0 |-> 45000, dphi |-> 5800, theta0 |-> 29000, dtheta |-> 2000],
    [phi0 |-> 60500, dphi |-> -6500, theta0 |-> 17000, dtheta |-> 0] }

\* Contents of a well-formed initial configuration file: line k holds
\* (x0 + k dx, y0, z0 + (k mod 2) dz).
FileContents ==
  { [x0 |-> -10000, dx |-> 14000, y0 |-> 3000, z0 |-> 1000, dz |-> 2000],
    [x0 |-> -21000, dx |-> 14500, y0 |-> -2000, z0 |-> 5000, dz |-> -3000] }

\* The draws (u1, u2, u3) of a local move, the acceptance draw of either
\* move, and the draw u1 of a global move: values of Uniform[0, 1].
LocalDraws == { <<ONE, ONE, ONE>> }

AcceptDraws == { 0, HALF, ONE }

GlobalDraws == { 0, ONE }

\* ------------------------------------------------------------------------
\* Fuleren::from_file on an arbitrary initial configuration
\* ------------------------------------------------------------------------

\* Bounds of the model: the lines of a file and the tokens of a line.
MaxLines == 2

MaxTokens == 4

\* A whitespace-separated token: what num_str.parse::<f64>() makes of it.
Tokens ==
  { [ok |-> TRUE, val |-> ONE], [ok |-> TRUE, val |-> -HALF], [ok |-> FALSE, val |-> 0] }

\* A line of the file: one the reader cannot deliver (an I/O error or invalid
\* UTF-8), or its tokens.
FileLines ==
  { [readable |-> FALSE, tokens |-> <<>>] }
    \cup { [readable |-> TRUE, tokens |-> t] :
             t \in UNION { [1 .. n -> Tokens] : n \in 0 .. MaxTokens } }

\* A path: a file that cannot be opened, or the lines of one that can.
Files ==
  { [exists |-> FALSE, lines |-> <<>>] }
    \cup { [exists |-> TRUE, lines |-> l] :
             l \in UNION { [1 .. m -> FileLines] : m \in 0 .. MaxLines } }

\* read_lines: File::open(filename).expect(..) panics, and nothing else
\* fails.
read_lines(file) == IF file.exists THEN "Ok" ELSE "panic"

\* line.expect("wrong line") ... .parse::<f64>().expect(..) ... collect():
\* the parsed numbers of a line, or "panic".
RECURSIVE AllParsed(_, _)
AllParsed(tokens, k) ==
  k > Len(tokens) \/ (tokens[k].ok /\ AllParsed(tokens, k + 1))

ParseLine(line) ==
  IF ~line.readable THEN [st |-> "panic", data |-> <<>>]
  ELSE IF ~AllParsed(line.tokens, 1) THEN [st |-> "panic", data |-> <<>>]
  ELSE [st |-> "Ok", data |-> [k \in 1 .. Len(line.tokens) |-> line.tokens[k].val]]

\* .map(|data| Point6::from_cartesian(&data)): data[0], data[1] and data[2]
\* are indexed, which panics out of bounds; further entries are not read.
PointOfLine(parsed) ==
  IF parsed.st = "panic" \/ Len(parsed.data) < 3
  THEN [st |-> "panic", point |-> Point6_new]
  ELSE [st |-> "Ok", point |-> from_cartesian(parsed.data)]

\* ------------------------------------------------------------------------
\* State
\* ------------------------------------------------------------------------

VARIABLES
  F,      \* the cluster of the run: [positions, size, E]
  it,     \* the loop variable of "for it in 0..it_max"
  i,      \* the loop variable of "for i in 0..N"
  beta,   \* the beta of the current iteration
  pc,     \* where main is: "loop", "local", "global" or "done"
  EN,     \* the F.E / N that main reads after the last iteration
  ctor,   \* history: how F was built, "sphere" or "file"
  last,   \* history: the last move, with the cluster it started from
  log,    \* history: the steps of the current iteration, in order
  rt,     \* a spherical triple and the points built from it
  load    \* a call of Fuleren::from_file

vars == <<F, it, i, beta, pc, EN, ctor, last, log, rt, load>>

runVars == <<F, it, i, beta, pc, EN, ctor, last, log>>

NoMove(self) ==
  [kind |-> "none", i |-> 0, ret |-> FALSE, old |-> self,
   prop |-> self.positions, v_old |-> 0, v_new |-> 0]

\* No triple under conversion, no call of from_file.
RtIdle ==
  [stage |-> "idle", sph |-> <<0, 0, 0>>, a |-> Point6_new, b |-> Point6_new]

LoadIdle ==
  [file |-> [exists |-> FALSE, lines |-> <<>>], k |-> 0, pc |-> "idle",
   acc |-> <<>>, result |-> "none", cluster |-> Fuleren_new(0)]

InitRun(self, how) ==
  /\ F = self
  /\ it = 0
  /\ i = 0
  /\ beta = 0
  /\ pc = "loop"
  /\ EN = 0
  /\ ctor = how
  /\ last = NoMove(self)
  /\ log = <<>>
  /\ rt = RtIdle
  /\ load = LoadIdle

\* let mut F = Fuleren::new(N); F.randomize_on_sphere(2.5);
InitSphere ==
  \E d \in SphereDraws :
    \E self \in { randomize_on_sphere(
                    Fuleren_new(NAtoms), sphere_r,
                    [k \in 0 .. NAtoms - 1 |-> d.phi0 + k * d.dphi],
                    [k \in 0 .. NAtoms - 1 |-> d.theta0 + (k % 2) * d.dtheta]) } :
      InitRun(self, "sphere")

\* let mut F = Fuleren::from_file(..).unwrap();
InitFile ==
  \E f \in FileContents :
    \E self \in { from_file_ok(
                    [k \in 0 .. NAtoms - 1 |->
                       <<f.x0 + k * f.dx, f.y0, f.z0 + (k % 2) * f.dz>>],
                    NAtoms) } :
      InitRun(self, "file")

Init == InitSphere \/ InitFile

\* An inner loop that stops one atom early, for i in 0..N-1: the variant
\* C8_IterationOrder must tell from AfterLocal.
AfterLocalOneShort(k, n) == IF k + 2 < n THEN "local" ELSE "global"

\* Where main goes after the local move of atom k: for i in 0..N
AfterLocal(k, n) == IF k + 1 < n THEN "local" ELSE "global"

\* The beta main hands to the moves of iteration it.
LoopBeta(k) == get_beta(k, ItMax, beta_min, beta_max, p)

\* for it in 0..it_max { let beta = get_beta(it, it_max, beta_min, beta_max, p);
IterStart ==
  /\ pc = "loop"
  /\ it < ItMax
  /\ beta' = LoopBeta(it)
  /\ i' = 0
  /\ log' = <<[kind |-> "beta", i |-> 0, beta |-> LoopBeta(it),
               down |-> FALSE, ret |-> FALSE]>>
  /\ pc' = AfterLocal(-1, F.size)
  /\ UNCHANGED <<F, it, EN, ctor, last, rt, load>>

\* F.random_atom_shift(i, beta);
LocalMove ==
  /\ pc = "local"
  /\ \E u \in LocalDraws :
       \E t \in { AtomTrial(F, i, u[1], u[2], u[3]) } :
         \E u4 \in AcceptDraws :
           \E m \in { AtomDecide(t, i, beta, u4) } :
             /\ F' = m.self
             /\ last' = [kind |-> "local", i |-> i, ret |-> m.ret, old |-> F,
                         prop |-> t.prop, v_old |-> t.v_old, v_new |-> t.v_new]
             /\ log' = Append(log, [kind |-> "local", i |-> i, beta |-> beta,
                                    down |-> t.v_new <= t.v_old, ret |-> m.ret])
  /\ i' = i + 1
  /\ pc' = AfterLocal(i, F.size)
  /\ UNCHANGED <<it, beta, EN, ctor, rt, load>>

\* F.random_global_r_shift(beta); } -- the end of the loop body
GlobalMove ==
  /\ pc = "global"
  /\ \E u1 \in GlobalDraws :
       \E t \in { GlobalTrial(F, u1) } :
         \E u2 \in AcceptDraws :
           \E m \in { GlobalDecide(t, beta, u2) } :
             /\ F' = m.self
             /\ last' = [kind |-> "global", i |-> 0, ret |-> m.ret, old |-> F,
                         prop |-> t.prop, v_old |-> t.v_old, v_new |-> t.v_new]
             /\ log' = Append(log, [kind |-> "global", i |-> 0, beta |-> beta,
                                    down |-> t.v_new <= t.v_old, ret |-> m.ret])
  /\ it' = it + 1
  /\ pc' = "loop"
  /\ UNCHANGED <<i, beta, EN, ctor, rt, load>>

\* EN_tab[N-30] = F.E/N as f64;
Finish ==
  /\ pc = "loop"
  /\ it >= ItMax
  /\ EN' = FDiv(F.E, F.size * ONE)
  /\ pc' = "done"
  /\ UNCHANGED <<F, it, i, beta, ctor, last, log, rt, load>>

Next == IterStart \/ LocalMove \/ GlobalMove \/ Finish

Spec == Init /\ [][Next]_vars

\* ------------------------------------------------------------------------
\* Properties of a run, checked under Spec
\* ------------------------------------------------------------------------

Abs(v) == IF v < 0 THEN -v ELSE v

\* Tolerance of an energy comparison: 0.01, a hundred units of the model's
\* arithmetic.
EnergyTol == ONE \div 100

\* The trial of the last move, as the second half of the move received it.
TrialOfLast ==
  [old |-> last.old, prop |-> last.prop, v_old |-> last.v_old, v_new |-> last.v_new]

\* What the last move would have decided with the beta b and the draw u.
DecideLast(b, u) ==
  IF last.kind = "local" THEN AtomDecide(TrialOfLast, last.i, b, u)
  ELSE GlobalDecide(TrialOfLast, b, u)

\* C1: at the end of a run the cached energy E that main reads equals the
\* total energy of the final positions, whether the last global move was
\* accepted or rejected.
C1_FinalEnergyIsFresh ==
  pc = "done" => F.E = energy_calc(F.positions, F.size)

\* A point inside the ranges r >= 0, phi in [0, 2 PI], theta in [0, PI].
InRange(pt) ==
  /\ pt.r >= 0
  /\ pt.phi >= 0 /\ pt.phi <= TwoPI
  /\ pt.theta >= 0 /\ pt.theta <= PI

\* C4: in a run that starts from a cluster randomized on a sphere, every atom
\* has r >= 0, phi in [0, 2 PI] and theta in [0, PI] after every local and
\* global move, accepted or rejected (and so has every proposed atom).
C4_AnglesStayInRange ==
  ctor = "sphere" =>
    \A k \in 0 .. F.size - 1 : InRange(F.positions[k]) /\ InRange(last.prop[k])

\* An accepted local move whose proposal took phi above 2 PI, so that
\* assert_angles wrapped it: phi is smaller after the move although the step
\* u2 = 1 increases it.
C4_WrappedMoveKept ==
  /\ ctor = "sphere"
  /\ last.kind = "local" /\ last.ret
  /\ F.positions[last.i] = last.prop[last.i]
  /\ F.positions[last.i].phi < last.old.positions[last.i].phi
  /\ last.old.positions[last.i].phi > 0

\* The betas p_acc is evaluated at by C5, beside the beta of the iteration.
C5Betas == { 0, 1, beta_min, 50 * ONE, beta_max }

\* C5: whenever the proposed energy is <= the current energy, p_acc is exactly
\* 1 for every beta >= 0 and the move is accepted for every acceptance draw:
\* the move (local or global) returned true and kept the proposed state, and
\* would have done so with any other draw and beta.
C5_DownhillAlwaysAccepted ==
  (last.kind # "none" /\ last.v_new <= last.v_old) =>
    /\ last.ret
    /\ F.positions = last.prop
    /\ \A b \in C5Betas \cup { beta } :
         /\ p_acc(b, last.v_new, last.v_old) = ONE
         /\ \A u \in AcceptDraws :
              /\ DecideLast(b, u).ret
              /\ DecideLast(b, u).self.positions = last.prop

\* An iteration in which a local move went strictly downhill and was kept,
\* and whose global move went strictly downhill and was kept.
C5_DownhillMovesKept ==
  /\ last.kind = "global" /\ last.ret
  /\ last.v_new < last.v_old
  /\ F.positions = last.prop /\ last.prop # last.old.positions
  /\ \E k \in 1 .. Len(log) :
       log[k].kind = "local" /\ log[k].down /\ log[k].ret

\* C6: a rejected global move restores the whole position array: every atom's
\* six fields and the atom count are those of the snapshot taken before the
\* proposal.
C6_RejectedGlobalRestoresAll ==
  (last.kind = "global" /\ ~last.ret) =>
    /\ F.size = last.old.size
    /\ DOMAIN F.positions = DOMAIN last.old.positions
    /\ \A k \in 0 .. F.size - 1 : F.positions[k] = last.old.positions[k]

\* A rejected global move whose proposal had moved every atom.
C6_RejectedGlobalSeen ==
  /\ last.kind = "global" /\ ~last.ret
  /\ last.v_new > last.v_old
  /\ \A k \in 0 .. F.size - 1 : last.prop[k] # last.old.positions[k]

\* C7: a rejected local move leaves atom i exactly as it was before the move
\* (r, phi, theta, x, y and z), whichever constructor built the cluster.
C7_RejectedLocalRestoresAtom ==
  (last.kind = "local" /\ ~last.ret) =>
    F.positions[last.i] = last.old.positions[last.i]

\* The k-th step of an iteration over n atoms with the beta b: beta first,
\* then the local moves of atoms 0 .. n-1 in ascending order, then the global
\* move.
ExpectedStep(k, n, b) ==
  IF k = 1 THEN [kind |-> "beta", i |-> 0, beta |-> b]
  ELSE IF k <= n + 1 THEN [kind |-> "local", i |-> k - 2, beta |-> b]
  ELSE [kind |-> "global", i |-> 0, beta |-> b]

\* The iteration the steps of log belong to.
LogIteration == IF pc \in { "local", "global" } THEN it ELSE it - 1

\* C8: in every iteration beta is computed once before any move, then one
\* local move is proposed for each atom 0, 1, .., N-1 in ascending order, then
\* one global move, all with the beta of that iteration; and the run stops
\* after exactly it_max iterations.
C8_IterationOrder ==
  /\ it \in 0 .. ItMax
  /\ Len(log) <= F.size + 2
  /\ \A k \in 1 .. Len(log) :
       [kind |-> log[k].kind, i |-> log[k].i, beta |-> log[k].beta]
         = ExpectedStep(k, F.size, get_beta(LogIteration, ItMax, beta_min, beta_max, p))
  /\ (pc = "local" => it < ItMax /\ i < F.size /\ Len(log) = i + 1)
  /\ (pc = "global" => it < ItMax /\ Len(log) = F.size + 1)
  /\ (pc = "loop" => Len(log) = IF it = 0 THEN 0 ELSE F.size + 2)
  /\ (pc = "done" => it = ItMax /\ Len(log) = F.size + 2)

\* A finished run: it_max iterations, the last with all its N + 2 steps.
C8_RunCompleted ==
  /\ pc = "done" /\ it = ItMax
  /\ F.size >= 2
  /\ Len(log) = F.size + 2
  /\ log[F.size + 1].kind = "local" /\ log[F.size + 1].i = F.size - 1
  /\ log[F.size + 2].kind = "global"

\* C9: a local move of atom i, accepted or rejected, changes nothing but atom
\* i: every other atom keeps its six fields, the atom count is unchanged and
\* so is the cached energy E.
C9_LocalMoveTouchesOnlyAtom ==
  last.kind = "local" =>
    /\ F.size = last.old.size
    /\ F.E = last.old.E
    /\ DOMAIN F.positions = DOMAIN last.old.positions
    /\ \A j \in 0 .. F.size - 1 :
         j # last.i => F.positions[j] = last.old.positions[j]

\* An accepted local move that did move its atom, in a cluster with other
\* atoms.
C9_AtomMoved ==
  /\ last.kind = "local" /\ last.ret
  /\ F.size >= 2
  /\ F.positions[last.i] # last.old.positions[last.i]
  /\ last.v_new # last.v_old

\* C10: for N >= 3 the difference v_new - v_old of _vi(i) that a local move
\* feeds to the Metropolis test equals (within EnergyTol) the change of the
\* total energy that moving atom i causes, and a local move accepted with
\* v_new <= v_old does not increase the total energy.
C10_LocalDeltaIsTotalDelta ==
  (last.kind = "local" /\ F.size >= 3) =>
    /\ Abs((last.v_new - last.v_old)
             - (energy_calc(last.prop, F.size)
                  - energy_calc(last.old.positions, F.size))) <= EnergyTol
    /\ (last.ret /\ last.v_new <= last.v_old) =>
         energy_calc(F.positions, F.size)
           <= energy_calc(last.old.positions, F.size) + EnergyTol

\* ------------------------------------------------------------------------
\* Spherical -> Cartesian -> spherical
\* ------------------------------------------------------------------------

\* The spherical triples tried: r >= 0, phi in [0, 2 PI], theta in [0, PI].
RtRadii == { 0, 5000, 10000, 25000 }

RtPhis == { 0, 5000, 7854, 15708, 20000, 31416, 40000, 47124, 55000, 62832 }

RtThetas == { 0, 5000, 10000, 15708, 20000, 26000 }

\* No run of main, no call of from_file.
NoRun ==
  /\ F = Fuleren_new(0)
  /\ it = 0
  /\ i = 0
  /\ beta = 0
  /\ pc = "idle"
  /\ EN = 0
  /\ ctor = "none"
  /\ last = NoMove(Fuleren_new(0))
  /\ log = <<>>

InitRT ==
  /\ NoRun
  /\ load = LoadIdle
  /\ \E r \in RtRadii, phi \in RtPhis, theta \in RtThetas :
       rt = [stage |-> "input", sph |-> <<r, phi, theta>>,
             a |-> Point6_new, b |-> Point6_new]

\* let a = Point6::from_spherical(&[r, phi, theta]);
RtBuild ==
  /\ rt.stage = "input"
  /\ rt' = [rt EXCEPT !.stage = "spherical", !.a = from_spherical(rt.sph)]
  /\ UNCHANGED <<runVars, load>>

\* let b = Point6::from_cartesian(&[a.x, a.y, a.z]);
RtRebuild ==
  /\ rt.stage = "spherical"
  /\ rt' = [rt EXCEPT !.stage = "cartesian",
                      !.b = from_cartesian(<<rt.a.x, rt.a.y, rt.a.z>>)]
  /\ UNCHANGED <<runVars, load>>

NextRT == RtBuild \/ RtRebuild

SpecRT == InitRT /\ [][NextRT]_vars

\* Tolerance of a comparison of coordinates: 0.01.
RtTol == ONE \div 100

\* C3: for every spherical triple with r >= 0, phi in [0, 2 PI] and theta in
\* [0, PI], from_spherical followed by from_cartesian of the x, y, z read back
\* gives the same r, phi and theta, within RtTol.
C3_RoundTrip ==
  rt.stage = "cartesian" =>
    /\ rt.b.r # NaN /\ rt.b.phi # NaN /\ rt.b.theta # NaN
    /\ Abs(rt.b.r - rt.sph[1]) <= RtTol
    /\ Abs(rt.b.phi - rt.sph[2]) <= RtTol
    /\ Abs(rt.b.theta - rt.sph[3]) <= RtTol

\* ------------------------------------------------------------------------
\* A call of Fuleren::from_file
\* ------------------------------------------------------------------------

InitLoad ==
  /\ NoRun
  /\ rt = RtIdle
  /\ \E f \in Files :
       load = [file |-> f, k |-> 1, pc |-> "open", acc |-> <<>>,
               result |-> "none", cluster |-> Fuleren_new(0)]

\* if let Ok(lines) = read_lines(path) { .. } else { Err(..) }
LoadOpen ==
  /\ load.pc = "open"
  /\ load' = CASE read_lines(load.file) = "Ok" -> [load EXCEPT !.pc = "lines"]
               [] read_lines(load.file) = "panic" ->
                    [load EXCEPT !.pc = "end", !.result = "panic"]
               [] OTHER -> [load EXCEPT !.pc = "end", !.result = "Err"]
  /\ UNCHANGED <<runVars, rt>>

\* One step of iter.collect(): the next line is read, parsed and turned
\* into a Point6, or the iterator ends and the cluster is returned.
LoadLine ==
  /\ load.pc = "lines"
  /\ \E pl \in { IF load.k <= Len(load.file.lines)
                 THEN PointOfLine(ParseLine(load.file.lines[load.k]))
                 ELSE [st |-> "end", point |-> Point6_new] } :
       load' = CASE pl.st = "panic" -> [load EXCEPT !.pc = "end", !.result = "panic"]
                 [] pl.st = "Ok" ->
                      [load EXCEPT !.k = @ + 1, !.acc = Append(@, pl.point)]
                 [] OTHER ->
                      [load EXCEPT !.pc = "end", !.result = "Ok",
                         !.cluster = [positions |-> [k \in 0 .. Len(load.acc) - 1 |->
                                                       load.acc[k + 1]],
                                      size |-> Len(load.acc), E |-> 0]]
  /\ UNCHANGED <<runVars, rt>>

NextLoad == LoadOpen \/ LoadLine

SpecLoad == InitLoad /\ [][NextLoad]_vars

\* A line that does not hold exactly three parsable coordinates.
MalformedLine(line) ==
  \/ ~line.readable
  \/ Len(line.tokens) # 3
  \/ \E k \in 1 .. Len(line.tokens) : ~line.tokens[k].ok

\* A malformed initial configuration: a source that cannot be opened, or one
\* with a malformed line.
Malformed(file) ==
  \/ ~file.exists
  \/ \E k \in 1 .. Len(file.lines) : MalformedLine(file.lines[k])

\* C2: from_file on a malformed initial configuration returns Err: it yields
\* no cluster and does not abort the process.
C2_MalformedGivesErr ==
  (load.pc = "end" /\ Malformed(load.file)) => load.result = "Err"
====
